---------------------------- MODULE Spec2Model ----------------------------
(***************************************************************************)
(* LeatherSense: durable local queue (SQLite, table queue_readings) filled *)
(* by the collector and drained into MySQL by the sync forwarder.          *)
(*                                                                         *)
(* State machine of src/sync.py main() together with the producer         *)
(* (src/collector.py insert_queue), the stop signal and the faults of the  *)
(* two stores.  One action per statement group of the forwarder loop; a    *)
(* whole SQLite call and a whole remote call are atomic.  Time is read by   *)
(* the program in whole seconds; it advances while the forwarder sleeps.   *)
(***************************************************************************)
EXTENDS Integers, Sequences, FiniteSets, TLC

(***************************************************************************)
(* Bounds of the model and configuration (environment variables)           *)
(***************************************************************************)
\* The environment is explored in profiles, chosen in Init (LiveInit for
\* "live"):
\*   "wide": several readings, short runs of failed cycles;
\*   "deep": one reading, long runs of failed cycles (the backoff ceilings);
\*   "foreign": two readings written by collectors whose DEVICE_KEY is or is
\*           not the forwarder's (also the environment of StopSpec);
\*   "live": as "wide" with readings appended on day 0 only and a later last
\*           day, for the properties of infinite behaviours.
\* number of readings the producer appends in one behaviour ("wide")
MaxRecords == 3
\* last UTC day the clock may reach (days are numbered from 0)
MaxDay == 2
\* the environment injects faults into the stores only while fewer than
\* this many cycles have failed in a row
MaxFailCount == 1
\* the same in the profile "deep"
DeepFailCount == 10
\* last UTC day of the profile "live" (readings of day 0 only, no stop
\* signal): one day per reading after the first midnight
LiveDays == MaxRecords + 1
\* MYSQL_BATCH_SIZE (env, default 200)
MYSQL_BATCH_SIZE == 2
\* MAX_SYNC_ATTEMPTS (env, default 50)
MAX_SYNC_ATTEMPTS == 2
\* RETENTION_DAYS (env, default 90)
RETENTION_DAYS == 1

\* DEVICE_KEY of the forwarder process (env)
DEVICE_KEY == "raspi-A"
\* DEVICE_KEY values a collector process may have been started with
CollectorKeys == {"raspi-A", "raspi-B"}
\* SENSOR_TYPE and SENSOR_PIN of the collector (DHT_TYPE default, pin_for_db("D4"))
SENSOR_TYPE == "DHT11"
SENSOR_PIN == "GPIO4"

\* seconds in a UTC calendar day (datetime.date(), timedelta(days=...))
SecondsPerDay == 86400
\* backoff of the remote / unclassified error handlers: min(300, 2 ** min(n, 8))
RemoteBackoffCap == 300
RemoteCounterCap == 8
\* backoff of the sqlite3.OperationalError handler: min(30, 2 ** min(n, 5))
LocalBackoffCap == 30
LocalCounterCap == 5
BackoffBase == 2
\* SYNC_INTERVAL_SECONDS (env, default 5) and the sleep of the backoff wait
SYNC_INTERVAL_SECONDS == 5
BackoffPollSeconds == 1

\* what the producer may store as the measured values of one reading
\* (temperature_c, humidity_pct, ok, error_msg); "poison" stands for values
\* the remote readings table rejects whenever they are part of a write
Payloads == {"good", "poison"}

\* SQL NULL of an integer column / Python None
None == 0 - 1

VARIABLES
    now,                    \* time.time() in whole seconds
    queue,                  \* queue_readings: reading_uuid -> row
    autoinc,                \* number of rows ever inserted (AUTOINCREMENT)
    remote,                 \* committed MySQL tables
    tx,                     \* the open MySQL transaction's view of the tables
    pc,                     \* position of the forwarder in main()
    RUNNING,                \* global flag cleared by handle_stop
    mysql_ready,            \* MYSQL_ENABLED and cfg_ok
    mysql_fail_count,       \* consecutive failure counter
    next_try,               \* nextAttemptAt
    last_maintenance_date,  \* UTC day of the last maintenance, or None
    today,                  \* local of the loop body (line 296)
    rows,                   \* result of fetch_unsynced of the running cycle
    batch,                  \* tuples handed to push_with_split
    calls,                  \* remote write calls of the last push_with_split
    ENABLE_RETENTION,       \* env ENABLE_RETENTION == "1" (line 35, default "1")
    profile                 \* "wide", "deep", "foreign", "live", "ops": how far the environment goes

vars == <<now, queue, autoinc, remote, tx, pc, RUNNING, mysql_ready,
          mysql_fail_count, next_try, last_maintenance_date, today, rows,
          batch, calls, ENABLE_RETENTION, profile>>

(***************************************************************************)
(* Helpers                                                                 *)
(***************************************************************************)
Min(a, b) == IF a <= b THEN a ELSE b

Max(a, b) == IF a >= b THEN a ELSE b

RECURSIVE Pow(_, _)
Pow(b, e) == IF e = 0 THEN 1 ELSE b * Pow(b, e - 1)

\* datetime.now(timezone.utc).date(), as a day number
UtcDate(t) == t \div SecondsPerDay

\* first second of the day after the day of t
NextMidnight(t) == (UtcDate(t) + 1) * SecondsPerDay

Range(s) == {s[i] : i \in 1..Len(s)}


\* strftime("%Y-%m-%d %H:%M:%S") of a UTC instant: the date, then the time of
\* day, in one number (day 1, 00:00:05 is 100005)
FormatUtc(t) == UtcDate(t) * 100000 + (t % SecondsPerDay)

(***************************************************************************)
(* SQLite operations on queue_readings                                     *)
(***************************************************************************)
\* collector.insert_queue: a new row with synced = dead = attempts = 0
insert_queue(q, rowid, reading_uuid, device_key, ts_epoch_utc, payload) ==
    [u \in DOMAIN q \cup {reading_uuid} |->
        IF u = reading_uuid
        THEN [id |-> rowid,
              device_key |-> device_key,
              sensor_type |-> SENSOR_TYPE,
              pin |-> SENSOR_PIN,
              ts_epoch_utc |-> ts_epoch_utc,
              ts_utc |-> FormatUtc(ts_epoch_utc),
              payload |-> payload,
              synced |-> 0,
              dead |-> 0,
              attempts |-> 0,
              last_attempt_utc |-> None]
        ELSE q[u]]

\* WHERE synced=0 AND dead=0
Pending(q) == {u \in DOMAIN q : q[u].synced = 0 /\ q[u].dead = 0}

\* mutant: ORDER BY ts_epoch_utc DESC
RECURSIVE OrderByEpochDesc(_, _)
OrderByEpochDesc(q, S) ==
    IF S = {} THEN <<>>
    ELSE LET first == CHOOSE u \in S : \A v \in S :
                          \/ q[u].ts_epoch_utc > q[v].ts_epoch_utc
                          \/ /\ q[u].ts_epoch_utc = q[v].ts_epoch_utc
                             /\ q[u].id >= q[v].id
         IN  <<first>> \o OrderByEpochDesc(q, S \ {first})

\* mutant: ORDER BY id
RECURSIVE OrderByRowid(_, _)
OrderByRowid(q, S) ==
    IF S = {} THEN <<>>
    ELSE LET first == CHOOSE u \in S : \A v \in S : q[u].id <= q[v].id
         IN  <<first>> \o OrderByRowid(q, S \ {first})

\* ORDER BY ts_epoch_utc ASC; rows of equal epoch come in rowid order (the
\* order of the index idx_queue_sync that serves the query)
RECURSIVE OrderByEpoch(_, _)
OrderByEpoch(q, S) ==
    IF S = {} THEN <<>>
    ELSE LET first == CHOOSE u \in S : \A v \in S :
                          \/ q[u].ts_epoch_utc < q[v].ts_epoch_utc
                          \/ /\ q[u].ts_epoch_utc = q[v].ts_epoch_utc
                             /\ q[u].id <= q[v].id
         IN  <<first>> \o OrderByEpoch(q, S \ {first})

\* the columns SELECTed by fetch_unsynced, for one row
SelectedColumns(q, u) ==
    [reading_uuid |-> u,
     device_key |-> q[u].device_key,
     sensor_type |-> q[u].sensor_type,
     pin |-> q[u].pin,
     ts_utc |-> q[u].ts_utc,
     payload |-> q[u].payload,
     attempts |-> q[u].attempts]

fetch_unsynced(q, limit) ==
    LET ordered == OrderByEpoch(q, Pending(q))
        n == Min(limit, Len(ordered))
    IN  [i \in 1..n |-> SelectedColumns(q, ordered[i])]

\* uuids = [r[0] for r in rows]
UuidsOf(rs) == [i \in 1..Len(rs) |-> rs[i].reading_uuid]

\* mutant: the UPDATE selects by state instead of by reading_uuid
mark_synced_all_pending(q, uuids, t) ==
    [u \in DOMAIN q |->
        IF q[u].synced = 0 /\ q[u].dead = 0
        THEN [q[u] EXCEPT !.synced = 1,
                          !.last_attempt_utc = FormatUtc(t),
                          !.attempts = @ + 1]
        ELSE q[u]]

\* mutant: the successful attempt is not counted
mark_synced_keeps_attempts(q, uuids, t) ==
    [u \in DOMAIN q |->
        IF u \in Range(uuids)
        THEN [q[u] EXCEPT !.synced = 1,
                          !.last_attempt_utc = FormatUtc(t)]
        ELSE q[u]]

\* UPDATE ... SET synced=1, last_attempt_utc=?, attempts=attempts+1 WHERE reading_uuid=?
mark_synced(q, uuids, t) ==
    [u \in DOMAIN q |->
        IF u \in Range(uuids)
        THEN [q[u] EXCEPT !.synced = 1,
                          !.last_attempt_utc = FormatUtc(t),
                          !.attempts = @ + 1]
        ELSE q[u]]

\* UPDATE ... SET last_attempt_utc=?, attempts=attempts+1 WHERE reading_uuid=?
mark_attempt_failed(q, uuids, t) ==
    [u \in DOMAIN q |->
        IF u \in Range(uuids)
        THEN [q[u] EXCEPT !.last_attempt_utc = FormatUtc(t),
                          !.attempts = @ + 1]
        ELSE q[u]]

\* mutant: the sweep without its WHERE synced=0 AND dead=0
mark_dead_any_state(q) ==
    [u \in DOMAIN q |->
        IF q[u].attempts >= MAX_SYNC_ATTEMPTS
        THEN [q[u] EXCEPT !.dead = 1]
        ELSE q[u]]

\* mutant: the sweep without synced=0 in its WHERE
mark_dead_ignores_synced(q) ==
    [u \in DOMAIN q |->
        IF q[u].dead = 0 /\ q[u].attempts >= MAX_SYNC_ATTEMPTS
        THEN [q[u] EXCEPT !.dead = 1]
        ELSE q[u]]

\* mutant: the sweep with attempts > MAX_SYNC_ATTEMPTS
mark_dead_above_threshold(q) ==
    [u \in DOMAIN q |->
        IF q[u].synced = 0 /\ q[u].dead = 0 /\ q[u].attempts > MAX_SYNC_ATTEMPTS
        THEN [q[u] EXCEPT !.dead = 1]
        ELSE q[u]]

\* UPDATE ... SET dead=1 WHERE synced=0 AND dead=0 AND attempts >= MAX_SYNC_ATTEMPTS
mark_dead_if_exceeded(q) ==
    [u \in DOMAIN q |->
        IF q[u].synced = 0 /\ q[u].dead = 0 /\ q[u].attempts >= MAX_SYNC_ATTEMPTS
        THEN [q[u] EXCEPT !.dead = 1]
        ELSE q[u]]

\* mutant: the DELETE without its AND (synced=1 OR dead=1)
retention_cleanup_any_state(q, t) ==
    IF ~ENABLE_RETENTION THEN q
    ELSE [u \in {v \in DOMAIN q :
                    q[v].ts_epoch_utc >= t - RETENTION_DAYS * SecondsPerDay} |-> q[u]]

\* DELETE ... WHERE ts_epoch_utc < cutoff AND (synced=1 OR dead=1)
retention_cleanup(q, t) ==
    IF ~ENABLE_RETENTION THEN q
    ELSE LET cutoff_epoch == t - RETENTION_DAYS * SecondsPerDay
             deleted == {u \in DOMAIN q :
                            /\ q[u].ts_epoch_utc < cutoff_epoch
                            /\ (q[u].synced = 1 \/ q[u].dead = 1)}
         IN  [u \in DOMAIN q \ deleted |-> q[u]]

(***************************************************************************)
(* MySQL operations.  The tables are                                       *)
(*   devices  : set of [id, device_key]                                    *)
(*   sensors  : set of [id, device_id, sensor_type, pin]                   *)
(*   readings : sequence of [reading_uuid, sensor_id, ts_utc, payload]     *)
(* in insertion order.  The schema is not part of the sources; its unique  *)
(* keys are those the comment of lines 130-133 and the external interface  *)
(* of the design name.                                                     *)
(***************************************************************************)
\* readings.reading_uuid carries a UNIQUE key
ReadingUuidIsUnique == TRUE

\* devices.device_key carries a UNIQUE key
DeviceKeyIsUnique == TRUE

EmptyTables == [devices |-> {}, sensors |-> {}, readings |-> <<>>]

\* an AUTO_INCREMENT id for a new row of a table
NextId(table) ==
    IF table = {} THEN 1
    ELSE 1 + (CHOOSE m \in {r.id : r \in table} : \A r \in table : r.id <= m)

\* INSERT INTO devices ... ON DUPLICATE KEY UPDATE ...; SELECT id ... WHERE device_key=%s
\* the tables after the call
ensure_device_tables(t, device_key) ==
    IF DeviceKeyIsUnique /\ \E d \in t.devices : d.device_key = device_key
    THEN t
    ELSE [t EXCEPT !.devices =
             @ \cup {[id |-> NextId(t.devices), device_key |-> device_key]}]

\* the id the call returns (the first row SELECTed)
ensure_device_id(t, device_key) ==
    LET after == ensure_device_tables(t, device_key)
        found == {d.id : d \in {x \in after.devices : x.device_key = device_key}}
    IN  CHOOSE i \in found : \A j \in found : i <= j

\* rows of sensors WHERE device_id=%s AND sensor_type=%s AND pin=%s
SensorsFound(t, device_id, sensor_type, pin) ==
    {s \in t.sensors : /\ s.device_id = device_id
                       /\ s.sensor_type = sensor_type
                       /\ s.pin = pin}

\* ensure_sensor: SELECT ... ORDER BY id DESC LIMIT 1, else INSERT; the tables
\* after the call
ensure_sensor_tables(t, device_id, sensor_type, pin) ==
    IF SensorsFound(t, device_id, sensor_type, pin) # {}
    THEN t
    ELSE [t EXCEPT !.sensors =
             @ \cup {[id |-> NextId(t.sensors), device_id |-> device_id,
                      sensor_type |-> sensor_type, pin |-> pin]}]

\* the id the call returns (the found row of greatest id, or cur.lastrowid)
ensure_sensor_id(t, device_id, sensor_type, pin) ==
    LET found == {s.id : s \in SensorsFound(
                      ensure_sensor_tables(t, device_id, sensor_type, pin),
                      device_id, sensor_type, pin)}
    IN  CHOOSE i \in found : \A j \in found : i >= j

\* lines 321-335 of main for the rows from position i on: resolve the sensor
\* of each row through the cycle's cache keyed by (sensor_type, pin) and
\* append (reading_uuid, sensor_id, ts_utc, values) to the batch.
\* st = [tables, sensor_cache, batch]
RECURSIVE BuildBatch(_, _, _, _)
BuildBatch(st, device_id, rs, i) ==
    IF i > Len(rs) THEN st
    ELSE LET r == rs[i]
             key == <<r.sensor_type, r.pin>>
             hit == key \in DOMAIN st.sensor_cache
             tables1 == IF hit THEN st.tables
                        ELSE ensure_sensor_tables(st.tables, device_id,
                                                  r.sensor_type, r.pin)
             cache1 == IF hit THEN st.sensor_cache
                       ELSE [k \in DOMAIN st.sensor_cache \cup {key} |->
                               IF k = key
                               THEN ensure_sensor_id(st.tables, device_id,
                                                     r.sensor_type, r.pin)
                               ELSE st.sensor_cache[k]]
             item == [reading_uuid |-> r.reading_uuid,
                      sensor_id |-> cache1[key],
                      ts_utc |-> r.ts_utc,
                      payload |-> r.payload]
         IN  BuildBatch([tables |-> tables1,
                         sensor_cache |-> cache1,
                         batch |-> Append(st.batch, item)],
                        device_id, rs, i + 1)

\* lines 321-335 as a whole, on the tables seen by a new transaction
Resolve(t, rs) ==
    LET t1 == ensure_device_tables(t, DEVICE_KEY)
        device_id == ensure_device_id(t, DEVICE_KEY)
    IN  BuildBatch([tables |-> t1, sensor_cache |-> <<>>, batch |-> <<>>],
                   device_id, rs, 1)

\* mutant: a plain INSERT on a table without the unique key
UpsertReading_insert_only(readings, item) == Append(readings, item)

\* one row of INSERT INTO readings ... ON DUPLICATE KEY UPDATE temperature_c,
\* humidity_pct, ok, error_msg (sensor_id and ts_utc of an existing row stay)
UpsertReading(readings, item) ==
    IF ReadingUuidIsUnique
       /\ \E i \in 1..Len(readings) : readings[i].reading_uuid = item.reading_uuid
    THEN [i \in 1..Len(readings) |->
            IF readings[i].reading_uuid = item.reading_uuid
            THEN [readings[i] EXCEPT !.payload = item.payload]
            ELSE readings[i]]
    ELSE Append(readings, item)

RECURSIVE UpsertAll(_, _, _)
UpsertAll(readings, b, i) ==
    IF i > Len(b) THEN readings
    ELSE UpsertAll(UpsertReading(readings, b[i]), b, i + 1)

\* the remote store rejects a write that holds a malformed row
Malformed(item) == item.payload = "poison"

Rejected(b) == \E i \in 1..Len(b) : Malformed(b[i])

\* push_batch_mysql as the n-th remote write of a push_with_split: it raises
\* MySQLError when the statement is rejected or when the n-th call is one
\* the environment fails (faults); a failed statement changes nothing.
\* st = [readings, offered, raised]
push_batch_mysql(st, b, faults) ==
    LET n == Len(st.offered) + 1
        ok == ~Rejected(b) /\ n \notin faults
    IN  [readings |-> IF ok THEN UpsertAll(st.readings, b, 1) ELSE st.readings,
         offered |-> Append(st.offered, [batch |-> b, ok |-> ok]),
         raised |-> ~ok]

\* mutant: the rejection of a single row is swallowed instead of re-raised
RECURSIVE push_with_split_swallow(_, _, _)
push_with_split_swallow(st, b, faults) ==
    IF b = <<>> THEN st
    ELSE LET tried == push_batch_mysql(st, b, faults)
         IN  IF ~tried.raised THEN tried
             ELSE IF Len(b) = 1 THEN [tried EXCEPT !.raised = FALSE]
             ELSE LET mid == Len(b) \div 2
                      left == push_with_split_swallow([tried EXCEPT !.raised = FALSE],
                                                      SubSeq(b, 1, mid), faults)
                  IN  push_with_split_swallow(left, SubSeq(b, mid + 1, Len(b)), faults)

\* push_with_split: returns with raised = TRUE when MySQLError leaves the call
RECURSIVE push_with_split(_, _, _)
push_with_split(st, b, faults) ==
    IF b = <<>> THEN st
    ELSE LET tried == push_batch_mysql(st, b, faults)
         IN  IF ~tried.raised THEN tried
             ELSE IF Len(b) = 1 THEN tried
             ELSE LET mid == Len(b) \div 2
                      left == push_with_split([tried EXCEPT !.raised = FALSE],
                                              SubSeq(b, 1, mid), faults)
                  IN  IF left.raised THEN left
                      ELSE push_with_split(left, SubSeq(b, mid + 1, Len(b)), faults)

(***************************************************************************)
(* Initial state: main() up to line 292, an empty queue, empty tables      *)
(***************************************************************************)
\* the forwarder is started in the last second of day 0
StartTime == SecondsPerDay - 1

Init ==
    /\ now = StartTime
    /\ queue = <<>>
    /\ autoinc = 0
    /\ remote = EmptyTables
    /\ tx = EmptyTables
    /\ pc = "loop"
    /\ RUNNING = TRUE
    /\ mysql_ready \in BOOLEAN
    /\ mysql_fail_count = 0
    /\ next_try = 0
    /\ last_maintenance_date = None
    /\ today = None
    /\ rows = <<>>
    /\ batch = <<>>
    /\ calls = <<>>
    /\ ENABLE_RETENTION = TRUE
    /\ profile \in {"wide", "deep", "foreign"}

(***************************************************************************)
(* Environment: the producer, the stop signal, the clock                   *)
(***************************************************************************)
\* readings the producer may append, failed cycles in a row up to which the
\* environment injects faults
RecordBudget ==
    IF profile = "deep" THEN 1 ELSE IF profile = "foreign" THEN 2 ELSE MaxRecords

\* DEVICE_KEY of the collector that writes a reading
WriterKeys == IF profile = "foreign" THEN CollectorKeys ELSE {DEVICE_KEY}

FailBudget == IF profile = "deep" THEN DeepFailCount ELSE MaxFailCount

DayBudget == IF profile = "live" THEN LiveDays ELSE MaxDay

\* the forwarder process exists; the model follows the queue while it does
Alive == pc \notin {"done", "crashed"}

\* collector main loop: rid = uuid4(), now_ts(), insert_queue(...)
Produce ==
    /\ Alive
    /\ autoinc < RecordBudget
    /\ profile = "live" => UtcDate(now) = 0
    /\ \E payload \in Payloads, key \in WriterKeys :
          queue' = insert_queue(queue, autoinc + 1, autoinc + 1, key, now, payload)
    /\ autoinc' = autoinc + 1
    /\ UNCHANGED <<profile, ENABLE_RETENTION, now, remote, tx, pc, RUNNING, mysql_ready, mysql_fail_count,
                   next_try, last_maintenance_date, today, rows, batch, calls>>

\* SIGTERM / SIGINT
handle_stop ==
    /\ Alive
    /\ RUNNING
    /\ RUNNING' = FALSE
    /\ UNCHANGED <<profile, ENABLE_RETENTION, now, queue, autoinc, remote, tx, pc, mysql_ready,
                   mysql_fail_count, next_try, last_maintenance_date, today,
                   rows, batch, calls>>

\* The clock.  A time.sleep(d) begun now lasts at least d seconds; the model
\* ends it at the first instant that matters to the program and is not
\* earlier: next_try or the next midnight.  A retry at next_try is explored
\* while the environment's run of failures is short (FailBudget) or a row of
\* the head batch is still below the dead-letter threshold; past that, more
\* retries before midnight change only counters, and the sleep ends at
\* midnight.  At the end of the last day the clock stands still.
RetryExplored ==
    \/ mysql_fail_count < FailBudget
    \/ LET head == fetch_unsynced(queue, MYSQL_BATCH_SIZE)
       IN  \E i \in 1..Len(head) : head[i].attempts < MAX_SYNC_ATTEMPTS

WakeTimes(d) ==
    {t \in {NextMidnight(now)} \cup (IF RetryExplored THEN {next_try} ELSE {}) :
        t >= now + d /\ UtcDate(t) <= DayBudget}

SleepEnds(d) ==
    IF WakeTimes(d) = {} THEN {now}
    ELSE {CHOOSE t \in WakeTimes(d) : \A other \in WakeTimes(d) : t <= other}

\* faults the environment may still inject into the stores
MayFail == mysql_fail_count < FailBudget

(***************************************************************************)
(* The forwarder: main(), lines 294-380                                    *)
(***************************************************************************)
\* mutant: the flag is not looked at, the iteration goes on
LoopExit_ignores_flag ==
    /\ pc = "loop"
    /\ ~RUNNING
    /\ pc' = "ready"
    /\ calls' = <<>>
    /\ UNCHANGED <<profile, ENABLE_RETENTION, now, queue, autoinc, remote, tx, RUNNING,
                   mysql_ready, mysql_fail_count, next_try, last_maintenance_date,
                   today, rows, batch>>

\* while RUNNING: false, lines 375-380
LoopExit ==
    /\ pc = "loop"
    /\ ~RUNNING
    /\ pc' = "done"
    /\ calls' = <<>>
    /\ UNCHANGED <<profile, ENABLE_RETENTION, now, queue, autoinc, remote, tx, RUNNING, mysql_ready,
                   mysql_fail_count, next_try, last_maintenance_date, today,
                   rows, batch>>

\* mutant: maintenance in every iteration
MaintenanceCheck_every_iteration ==
    /\ pc = "loop"
    /\ RUNNING
    /\ today' = UtcDate(now)
    /\ pc' = "retention"
    /\ calls' = <<>>
    /\ UNCHANGED <<profile, ENABLE_RETENTION, now, queue, autoinc, remote, tx, RUNNING,
                   mysql_ready, mysql_fail_count, next_try, last_maintenance_date,
                   rows, batch>>

\* lines 294-297: today = utc date; is maintenance due?
MaintenanceCheck ==
    /\ pc = "loop"
    /\ RUNNING
    /\ today' = UtcDate(now)
    /\ pc' = IF last_maintenance_date # today' THEN "retention" ELSE "ready"
    /\ calls' = <<>>
    /\ UNCHANGED <<profile, ENABLE_RETENTION, now, queue, autoinc, remote, tx, RUNNING, mysql_ready,
                   mysql_fail_count, next_try, last_maintenance_date, rows, batch>>

\* line 298
RetentionCleanup ==
    /\ pc = "retention"
    /\ queue' = retention_cleanup(queue, now)
    /\ pc' = "deadletter"
    /\ UNCHANGED <<profile, ENABLE_RETENTION, now, autoinc, remote, tx, RUNNING, mysql_ready,
                   mysql_fail_count, next_try, last_maintenance_date, today,
                   rows, batch, calls>>

\* lines 299-300
MarkDead ==
    /\ pc = "deadletter"
    /\ queue' = mark_dead_if_exceeded(queue)
    /\ last_maintenance_date' = today
    /\ pc' = "ready"
    /\ UNCHANGED <<profile, ENABLE_RETENTION, now, autoinc, remote, tx, RUNNING, mysql_ready,
                   mysql_fail_count, next_try, today, rows, batch, calls>>

\* sqlite3.OperationalError raised by a statement of lines 298, 299 or 310,
\* none of which is inside the try: the exception leaves main()
LocalErrorOutsideTry ==
    /\ \/ pc \in {"retention", "deadletter"}
       \/ (pc = "ready" /\ mysql_ready /\ now >= next_try)
    /\ pc' = "crashed"
    /\ UNCHANGED <<profile, ENABLE_RETENTION, now, queue, autoinc, remote, tx, RUNNING, mysql_ready,
                   mysql_fail_count, next_try, last_maintenance_date, today,
                   rows, batch, calls>>

\* lines 302-304
NotReadySleep ==
    /\ pc = "ready"
    /\ ~mysql_ready
    /\ now' \in SleepEnds(Max(2, SYNC_INTERVAL_SECONDS))
    /\ pc' = "loop"
    /\ UNCHANGED <<profile, ENABLE_RETENTION, queue, autoinc, remote, tx, RUNNING, mysql_ready,
                   mysql_fail_count, next_try, last_maintenance_date, today,
                   rows, batch, calls>>

\* lines 306-308
BackoffSleep ==
    /\ pc = "ready"
    /\ mysql_ready
    /\ now < next_try
    /\ now' \in SleepEnds(BackoffPollSeconds)
    /\ pc' = "loop"
    /\ UNCHANGED <<profile, ENABLE_RETENTION, queue, autoinc, remote, tx, RUNNING, mysql_ready,
                   mysql_fail_count, next_try, last_maintenance_date, today,
                   rows, batch, calls>>

\* lines 310-313: nothing pending
FetchEmpty ==
    /\ pc = "ready"
    /\ mysql_ready
    /\ now >= next_try
    /\ fetch_unsynced(queue, MYSQL_BATCH_SIZE) = <<>>
    /\ now' \in SleepEnds(SYNC_INTERVAL_SECONDS)
    /\ pc' = "loop"
    /\ UNCHANGED <<profile, ENABLE_RETENTION, queue, autoinc, remote, tx, RUNNING, mysql_ready,
                   mysql_fail_count, next_try, last_maintenance_date, today,
                   rows, batch, calls>>

\* mutant: the batch is fetched without regard to next_try
FetchRows_ungated ==
    /\ pc = "ready"
    /\ mysql_ready
    /\ fetch_unsynced(queue, MYSQL_BATCH_SIZE) # <<>>
    /\ rows' = fetch_unsynced(queue, MYSQL_BATCH_SIZE)
    /\ pc' = "connect"
    /\ UNCHANGED <<profile, ENABLE_RETENTION, now, queue, autoinc, remote, tx, RUNNING, mysql_ready,
                   mysql_fail_count, next_try, last_maintenance_date, today,
                   batch, calls>>

\* lines 310-315: a batch to deliver
FetchRows ==
    /\ pc = "ready"
    /\ mysql_ready
    /\ now >= next_try
    /\ fetch_unsynced(queue, MYSQL_BATCH_SIZE) # <<>>
    /\ rows' = fetch_unsynced(queue, MYSQL_BATCH_SIZE)
    /\ pc' = "connect"
    /\ UNCHANGED <<profile, ENABLE_RETENTION, now, queue, autoinc, remote, tx, RUNNING, mysql_ready,
                   mysql_fail_count, next_try, last_maintenance_date, today,
                   batch, calls>>

\* mutant: the exponent is not capped
BackoffWait_uncapped(n, cap, counter_cap) == Min(cap, Pow(BackoffBase, n))

\* wait = min(cap, 2 ** min(mysql_fail_count, counter_cap))
BackoffWait(n, cap, counter_cap) == Min(cap, Pow(BackoffBase, Min(n, counter_cap)))

\* except MySQLError (lines 349-359) and except Exception (lines 368-373):
\* the two handlers are the same statements.  locked: mark_attempt_failed
\* raises sqlite3.OperationalError, which leaves the handler and main().
\* The connection is dropped without commit: its writes are rolled back.
RemoteErrorHandler(locked, committed) ==
    /\ mysql_fail_count' = mysql_fail_count + 1
    /\ next_try' = now + BackoffWait(mysql_fail_count', RemoteBackoffCap, RemoteCounterCap)
    /\ IF locked
       THEN queue' = queue /\ pc' = "crashed"
       ELSE queue' = mark_attempt_failed(queue, UuidsOf(rows), now) /\ pc' = "loop"
    /\ remote' = committed
    /\ tx' = committed
    /\ rows' = <<>>
    /\ batch' = <<>>

\* except sqlite3.OperationalError (lines 361-366)
LocalErrorHandler ==
    /\ mysql_fail_count' = mysql_fail_count + 1
    /\ next_try' = now + BackoffWait(mysql_fail_count', LocalBackoffCap, LocalCounterCap)
    /\ pc' = "loop"
    /\ rows' = <<>>
    /\ batch' = <<>>

\* lines 318-335 without error: connection open, device and sensors resolved
Connect ==
    /\ pc = "connect"
    /\ LET st == Resolve(remote, rows)
       IN  /\ tx' = st.tables
           /\ batch' = st.batch
    /\ pc' = "push"
    /\ UNCHANGED <<profile, ENABLE_RETENTION, now, queue, autoinc, remote, RUNNING, mysql_ready,
                   mysql_fail_count, next_try, last_maintenance_date, today,
                   rows, calls>>

\* lines 318-335 raise MySQLError (connection refused, timeout, ...) or any
\* other exception
ConnectFails ==
    /\ pc = "connect"
    /\ MayFail
    /\ \E locked \in BOOLEAN : RemoteErrorHandler(locked, remote)
    /\ UNCHANGED <<profile, ENABLE_RETENTION, now, autoinc, RUNNING, mysql_ready,
                   last_maintenance_date, today, calls>>

\* line 338 returns: every row was accepted by some write
Push ==
    /\ pc = "push"
    /\ \E faults \in SUBSET (1..(2 * Len(batch) - 1)) :
          /\ faults # {} => MayFail
          /\ LET r == push_with_split([readings |-> tx.readings,
                                       offered |-> <<>>,
                                       raised |-> FALSE], batch, faults)
             IN  /\ ~r.raised
                 /\ tx' = [tx EXCEPT !.readings = r.readings]
                 /\ calls' = r.offered
    /\ pc' = "commit"
    /\ UNCHANGED <<profile, ENABLE_RETENTION, now, queue, autoinc, remote, RUNNING, mysql_ready,
                   mysql_fail_count, next_try, last_maintenance_date, today,
                   rows, batch>>

\* line 338 raises MySQLError: a write of a single row failed
PushRaises ==
    /\ pc = "push"
    /\ \E faults \in SUBSET (1..(2 * Len(batch) - 1)) :
          /\ faults # {} => MayFail
          /\ LET r == push_with_split([readings |-> tx.readings,
                                       offered |-> <<>>,
                                       raised |-> FALSE], batch, faults)
             IN  /\ r.raised
                 /\ calls' = r.offered
    /\ \E locked \in BOOLEAN : RemoteErrorHandler(locked, remote)
    /\ UNCHANGED <<profile, ENABLE_RETENTION, now, autoinc, RUNNING, mysql_ready,
                   last_maintenance_date, today>>

\* line 339 (and the closes of lines 340-341) without error
Commit ==
    /\ pc = "commit"
    /\ remote' = tx
    /\ pc' = "mark"
    /\ calls' = <<>>
    /\ UNCHANGED <<profile, ENABLE_RETENTION, now, queue, autoinc, tx, RUNNING, mysql_ready,
                   mysql_fail_count, next_try, last_maintenance_date, today,
                   rows, batch>>

\* line 339 raises MySQLError: nothing is committed
CommitFails ==
    /\ pc = "commit"
    /\ MayFail
    /\ calls' = <<>>
    /\ \E locked \in BOOLEAN : RemoteErrorHandler(locked, remote)
    /\ UNCHANGED <<profile, ENABLE_RETENTION, now, autoinc, RUNNING, mysql_ready,
                   last_maintenance_date, today>>

\* line 339 commits, then cur.close() or conn_mysql.close() raises MySQLError
CloseFails ==
    /\ pc = "commit"
    /\ MayFail
    /\ calls' = <<>>
    /\ \E locked \in BOOLEAN : RemoteErrorHandler(locked, tx)
    /\ UNCHANGED <<profile, ENABLE_RETENTION, now, autoinc, RUNNING, mysql_ready,
                   last_maintenance_date, today>>

\* mutant: the rows are marked, the backoff is not reset
MarkSynced_no_reset ==
    /\ pc = "mark"
    /\ queue' = mark_synced(queue, UuidsOf(rows), now)
    /\ pc' = "loop"
    /\ rows' = <<>>
    /\ batch' = <<>>
    /\ UNCHANGED <<profile, ENABLE_RETENTION, now, autoinc, remote, tx, RUNNING, mysql_ready,
                   mysql_fail_count, next_try, last_maintenance_date, today, calls>>

\* lines 343-347
MarkSynced ==
    /\ pc = "mark"
    /\ queue' = mark_synced(queue, UuidsOf(rows), now)
    /\ mysql_fail_count' = 0
    /\ next_try' = now
    /\ pc' = "loop"
    /\ rows' = <<>>
    /\ batch' = <<>>
    /\ UNCHANGED <<profile, ENABLE_RETENTION, now, autoinc, remote, tx, RUNNING, mysql_ready,
                   last_maintenance_date, today, calls>>

\* mutant: the local error is counted against the rows like a remote one
MarkSyncedLocked_counts_attempt ==
    /\ pc = "mark"
    /\ MayFail
    /\ queue' = mark_attempt_failed(queue, UuidsOf(rows), now)
    /\ LocalErrorHandler
    /\ UNCHANGED <<profile, ENABLE_RETENTION, now, autoinc, remote, tx, RUNNING, mysql_ready,
                   last_maintenance_date, today, calls>>

\* line 343 raises sqlite3.OperationalError (database is locked)
MarkSyncedLocked ==
    /\ pc = "mark"
    /\ MayFail
    /\ LocalErrorHandler
    /\ UNCHANGED <<profile, ENABLE_RETENTION, now, queue, autoinc, remote, tx, RUNNING, mysql_ready,
                   last_maintenance_date, today, calls>>

Next ==
    \/ Produce
    \/ handle_stop
    \/ LoopExit
    \/ MaintenanceCheck
    \/ RetentionCleanup
    \/ MarkDead
    \/ LocalErrorOutsideTry
    \/ NotReadySleep
    \/ BackoffSleep
    \/ FetchEmpty
    \/ FetchRows
    \/ Connect
    \/ ConnectFails
    \/ Push
    \/ PushRaises
    \/ Commit
    \/ CommitFails
    \/ CloseFails
    \/ MarkSynced
    \/ MarkSyncedLocked

Spec == Init /\ [][Next]_vars

(***************************************************************************)
(* The forwarder left to run: no stop signal, MySQL configured.  The loop  *)
(* is one process, whose next statement is eventually executed.            *)
(***************************************************************************)
LiveInit ==
    /\ now = StartTime
    /\ queue = <<>>
    /\ autoinc = 0
    /\ remote = EmptyTables
    /\ tx = EmptyTables
    /\ pc = "loop"
    /\ RUNNING = TRUE
    /\ mysql_ready = TRUE
    /\ mysql_fail_count = 0
    /\ next_try = 0
    /\ last_maintenance_date = None
    /\ today = None
    /\ rows = <<>>
    /\ batch = <<>>
    /\ calls = <<>>
    /\ ENABLE_RETENTION \in BOOLEAN
    /\ profile = "live"

Forwarder ==
    \/ MaintenanceCheck
    \/ RetentionCleanup
    \/ MarkDead
    \/ LocalErrorOutsideTry
    \/ BackoffSleep
    \/ FetchEmpty
    \/ FetchRows
    \/ Connect
    \/ ConnectFails
    \/ Push
    \/ PushRaises
    \/ Commit
    \/ CommitFails
    \/ CloseFails
    \/ MarkSynced
    \/ MarkSyncedLocked

LiveNext ==
    \/ Produce
    \/ Forwarder

LiveSpec == LiveInit /\ [][LiveNext]_vars /\ WF_vars(Forwarder)

(***************************************************************************)
(* The forwarder with the stop signal: every statement of the process,     *)
(* the exit of the loop included, is eventually executed.  Two readings.   *)
(***************************************************************************)
StopInit ==
    /\ now = StartTime
    /\ queue = <<>>
    /\ autoinc = 0
    /\ remote = EmptyTables
    /\ tx = EmptyTables
    /\ pc = "loop"
    /\ RUNNING = TRUE
    /\ mysql_ready \in BOOLEAN
    /\ mysql_fail_count = 0
    /\ next_try = 0
    /\ last_maintenance_date = None
    /\ today = None
    /\ rows = <<>>
    /\ batch = <<>>
    /\ calls = <<>>
    /\ ENABLE_RETENTION = TRUE
    /\ profile = "foreign"

ForwarderStep ==
    \/ Forwarder
    \/ NotReadySleep
    \/ LoopExit

StopSpec == StopInit /\ [][Next]_vars /\ WF_vars(ForwarderStep)

(***************************************************************************)
(* The operations on queue_readings one by one, each applied to any small  *)
(* table: rows in any of the three states, on either side of the retention *)
(* cutoff, with epochs in any order relative to the rowids, retention      *)
(* enabled or not.                                                         *)
(***************************************************************************)
\* the clock of these calls: the retention cutoff falls on StartTime
OpsTime == StartTime + RETENTION_DAYS * SecondsPerDay

OpsEpochs == {StartTime - 1, StartTime, StartTime + 1}

\* (synced, dead) of a row: pending, synced, dead
OpsFlags == {<<0, 0>>, <<1, 0>>, <<0, 1>>}

OpsAttempts == {MAX_SYNC_ATTEMPTS - 1, MAX_SYNC_ATTEMPTS}

\* the row insert_queue wrote as reading u, after the updates that gave it
\* the flags and attempts of choice c = <<epoch, flags, attempts>>
OpsRow(u, c) ==
    [insert_queue(<<>>, u, u, DEVICE_KEY, c[1], "good")[u]
        EXCEPT !.synced = c[2][1], !.dead = c[2][2], !.attempts = c[3]]

OpsInit ==
    /\ now = OpsTime
    /\ autoinc \in 0..MaxRecords
    /\ \E c \in [1..autoinc -> OpsEpochs \X OpsFlags \X OpsAttempts] :
          queue = [u \in 1..autoinc |-> OpsRow(u, c[u])]
    /\ remote = EmptyTables
    /\ tx = EmptyTables
    /\ pc = "ops"
    /\ RUNNING = TRUE
    /\ mysql_ready = TRUE
    /\ mysql_fail_count = 0
    /\ next_try = 0
    /\ last_maintenance_date = None
    /\ today = None
    /\ rows = <<>>
    /\ batch = <<>>
    /\ calls = <<>>
    /\ ENABLE_RETENTION \in BOOLEAN
    /\ profile = "ops"

OpsUnchanged ==
    UNCHANGED <<profile, ENABLE_RETENTION, now, autoinc, remote, tx, RUNNING,
                mysql_ready, mysql_fail_count, next_try, last_maintenance_date,
                today, batch, calls>>

OpsRetentionCleanup ==
    /\ pc = "ops"
    /\ queue' = retention_cleanup(queue, now)
    /\ pc' = "retention_cleanup"
    /\ rows' = rows
    /\ OpsUnchanged

OpsMarkDead ==
    /\ pc = "ops"
    /\ queue' = mark_dead_if_exceeded(queue)
    /\ pc' = "mark_dead_if_exceeded"
    /\ rows' = rows
    /\ OpsUnchanged

OpsFetch ==
    /\ pc = "ops"
    /\ rows' = fetch_unsynced(queue, MYSQL_BATCH_SIZE)
    /\ pc' = "fetch_unsynced"
    /\ queue' = queue
    /\ OpsUnchanged

OpsMarkSynced ==
    /\ pc = "fetch_unsynced"
    /\ queue' = mark_synced(queue, UuidsOf(rows), now)
    /\ pc' = "mark_synced"
    /\ rows' = rows
    /\ OpsUnchanged

OpsMarkAttemptFailed ==
    /\ pc = "fetch_unsynced"
    /\ queue' = mark_attempt_failed(queue, UuidsOf(rows), now)
    /\ pc' = "mark_attempt_failed"
    /\ rows' = rows
    /\ OpsUnchanged

OpsNext ==
    \/ OpsRetentionCleanup
    \/ OpsMarkDead
    \/ OpsFetch
    \/ OpsMarkSynced
    \/ OpsMarkAttemptFailed

OpsSpec == OpsInit /\ [][OpsNext]_vars

(***************************************************************************)
(* Properties                                                              *)
(***************************************************************************)
\* rows of the local queue before and after a step
Kept == DOMAIN queue \cap DOMAIN queue'

IsSynced(q, u) == q[u].synced = 1

IsDead(q, u) == q[u].dead = 1

IsPending(q, u) == q[u].synced = 0 /\ q[u].dead = 0

\* reading_uuids of the committed remote readings
Delivered == {remote.readings[i].reading_uuid : i \in 1..Len(remote.readings)}

\* C1: in every step, a row that stays in the queue changes its synced/dead
\* flags only from pending to synced alone or from pending to dead alone; a
\* row that is synced or dead keeps both flags
C1_StateTransitions ==
    [][\A u \in Kept :
          \/ /\ queue'[u].synced = queue[u].synced
             /\ queue'[u].dead = queue[u].dead
          \/ /\ IsPending(queue, u)
             /\ \/ IsSynced(queue', u) /\ ~IsDead(queue', u)
                \/ IsDead(queue', u) /\ ~IsSynced(queue', u)]_vars

\* C1 witness: both transitions have happened
C1_Witness ==
    /\ \E u \in DOMAIN queue : IsSynced(queue, u) /\ queue[u].attempts >= MAX_SYNC_ATTEMPTS
    /\ \E u \in DOMAIN queue : IsDead(queue, u)

\* C2: every local row with synced=1 has a committed remote reading with the
\* same reading_uuid
C2_SyncedImpliesDelivered ==
    \A u \in DOMAIN queue : IsSynced(queue, u) => u \in Delivered

\* C2 witness: a row is marked synced
C2_Witness ==
    \E u \in DOMAIN queue : IsSynced(queue, u)

\* C3: with the forwarder scheduled fairly, days changing and the remote
\* store available again after finitely many failures, every pending row
\* eventually is synced alone or dead alone (or was purged after that)
C3_EventuallySyncedOrDead ==
    \A u \in 1..MaxRecords :
        (u \in DOMAIN queue /\ IsPending(queue, u))
            ~> \/ u \notin DOMAIN queue
               \/ IsSynced(queue, u) /\ ~IsDead(queue, u)
               \/ IsDead(queue, u) /\ ~IsSynced(queue, u)

\* reading_uuids of the readings a transaction sees
UuidsIn(readings) == {readings[i].reading_uuid : i \in 1..Len(readings)}

\* every remote write that failed held a malformed row: the environment
\* failed no write of its own
NoInjectedFault(offered) ==
    \A n \in 1..Len(offered) : ~offered[n].ok => Rejected(offered[n].batch)

\* C4: a cycle's push of a batch of N >= 2 rows of which exactly one is
\* malformed, with no other failure, ends with the other N-1 rows written and
\* the cycle going on to commit them
C4_PoisonPillIsolated ==
    [][(/\ pc = "push"
        /\ pc' # "push"
        /\ Len(batch) >= 2
        /\ Cardinality({i \in 1..Len(batch) : Malformed(batch[i])}) = 1
        /\ NoInjectedFault(calls'))
       => /\ pc' = "commit"
          /\ \A i \in 1..Len(batch) :
                ~Malformed(batch[i]) => batch[i].reading_uuid \in UuidsIn(tx'.readings)]_vars

\* C5: no error leaves the forwarder's loop, and the loop is left only after
\* a stop signal
C5_NoErrorEscapes ==
    /\ pc # "crashed"
    /\ pc = "done" => ~RUNNING

C7_DeadLetterIffSweep ==
    [][\A u \in Kept :
          (queue[u].dead = 0 /\ queue'[u].dead = 1)
              <=> /\ pc = "deadletter"
                  /\ pc' = "ready"
                  /\ IsPending(queue, u)
                  /\ queue[u].attempts >= MAX_SYNC_ATTEMPTS]_vars

\* C7 witness: a row that reached the threshold has been dead-lettered by a
\* sweep while another row, one attempt short of it, is still pending
C7_Witness ==
    /\ \E u \in DOMAIN queue : IsDead(queue, u) /\ queue[u].attempts >= MAX_SYNC_ATTEMPTS
    /\ \E u \in DOMAIN queue :
          IsPending(queue, u) /\ queue[u].attempts = MAX_SYNC_ATTEMPTS - 1

\* a step that ends a delivery cycle in the handler of a remote or other
\* error, in the handler of a local SQLite error, or with its rows marked
FailedRemote == pc \in {"connect", "push", "commit"} /\ pc' \in {"loop", "crashed"}

FailedLocal ==
    /\ pc = "mark"
    /\ pc' = "loop"
    /\ \E u \in Range(UuidsOf(rows)) : ~IsSynced(queue', u)

Succeeded ==
    /\ pc = "mark"
    /\ pc' = "loop"
    /\ \A u \in Range(UuidsOf(rows)) : IsSynced(queue', u)

\* C8: mysql_fail_count counts the failed cycles since the last successful
\* one (plus one per failed cycle, zero after a success, else unchanged), and
\* the k-th failed cycle in a row sets next_try to now + min(300, 2^min(k, 8))
\* after a remote or other error and to now + min(30, 2^min(k, 5)) after a
\* local SQLite error: 2, 4, 8 seconds for k = 1, 2, 3, never above the ceiling
C8_BackoffSchedule ==
    [][LET k == mysql_fail_count'
       IN  /\ mysql_fail_count' = IF FailedRemote \/ FailedLocal THEN mysql_fail_count + 1
                                  ELSE IF Succeeded THEN 0
                                  ELSE mysql_fail_count
           /\ FailedRemote =>
                 /\ next_try' = now + Min(300, Pow(2, Min(k, 8)))
                 /\ next_try' - now <= 300
                 /\ k <= 3 => next_try' - now = <<2, 4, 8>>[k]
           /\ FailedLocal =>
                 /\ next_try' = now + Min(30, Pow(2, Min(k, 5)))
                 /\ next_try' - now <= 30
                 /\ k <= 3 => next_try' - now = <<2, 4, 8>>[k]]_vars

\* C8 witness: more than eight cycles have failed in a row and the last one,
\* a remote failure, backed off by 2^8 seconds
C8_Witness ==
    /\ pc = "loop"
    /\ mysql_fail_count > 8
    /\ next_try = now + 256

\* the forwarder is inside a delivery cycle: batch selected, not yet settled
InCycle(at) == at \in {"connect", "push", "commit", "mark"}

\* C9: a delivery cycle is only ever in progress at a time >= next_try, and
\* a step taken while now < next_try starts no cycle, leaves the remote store
\* and its open transaction alone, and changes no row's attempts, synced or
\* dead, except that the daily maintenance (retention, sweep) still runs
C9_NoCycleBeforeNextTry ==
    [][/\ InCycle(pc') => now' >= next_try'
       /\ now < next_try =>
             /\ ~InCycle(pc')
             /\ remote' = remote
             /\ tx' = tx
             /\ calls' \in {calls, <<>>}
             /\ pc \notin {"retention", "deadletter"} =>
                   /\ DOMAIN queue \subseteq DOMAIN queue'
                   /\ \A u \in DOMAIN queue :
                         /\ queue'[u].attempts = queue[u].attempts
                         /\ queue'[u].synced = queue[u].synced
                         /\ queue'[u].dead = queue[u].dead
             /\ \A u \in Kept : queue'[u].attempts = queue[u].attempts]_vars

\* C9 witness: the day changed inside the backoff window and the maintenance
\* is running before next_try, with rows still pending
C9_Witness ==
    /\ now < next_try
    /\ pc \in {"retention", "deadletter"}
    /\ \E u \in DOMAIN queue : IsPending(queue, u)

\* C10: the step that marks a cycle's rows synced leaves mysql_fail_count
\* at zero and next_try at the current time, so that a batch may be fetched
\* at once; and the first failed cycle after it backs off by 2^1 seconds
C10_SuccessResetsBackoff ==
    [][/\ (\E u \in Kept : IsPending(queue, u) /\ IsSynced(queue', u)) =>
             /\ mysql_fail_count' = 0
             /\ next_try' = now'
             /\ now' >= next_try'
       /\ (mysql_fail_count = 0 /\ mysql_fail_count' # 0) =>
             /\ mysql_fail_count' = 1
             /\ next_try' = now + 2]_vars

\* C10 witness: a row that had failed before was delivered and marked, and
\* the failure of a later cycle is again the first of its run
C10_Witness ==
    /\ pc = "loop"
    /\ \E u \in DOMAIN queue : IsSynced(queue, u) /\ queue[u].attempts > 1
    /\ mysql_fail_count = 1
    /\ next_try = now + 2

\* C11: a step that ends a cycle in the handler of a remote or other error
\* adds exactly 1 to attempts and stamps last_attempt_utc on every row of the
\* cycle's batch, and leaves synced and dead of those rows as they were
\* (pending)
C11_FailedCycleCountsAttempt ==
    [][FailedRemote =>
          \A u \in Range(UuidsOf(rows)) :
              /\ u \in DOMAIN queue'
              /\ queue'[u].attempts = queue[u].attempts + 1
              /\ queue'[u].last_attempt_utc = FormatUtc(now)
              /\ IsPending(queue, u)
              /\ IsPending(queue', u)]_vars

\* C12: a step in which a statement on the local queue raises
\* sqlite3.OperationalError changes no row (no attempts, no dead); when the
\* error is raised inside the cycle, the forwarder goes back to the top of
\* the loop with next_try between 1 and 30 seconds ahead
C12_LocalErrorCountsNoAttempt ==
    [][/\ (FailedLocal \/ (pc # "crashed" /\ pc' = "crashed")) => queue' = queue
       /\ FailedLocal =>
             /\ pc' = "loop"
             /\ next_try' > now
             /\ next_try' <= now + 30]_vars

\* C12 witness: mark_synced failed on a locked database after the remote
\* commit: the rows are delivered, still pending, with no attempt counted
C12_Witness ==
    /\ pc = "loop"
    /\ mysql_fail_count > 0
    /\ next_try > now
    /\ \E u \in DOMAIN queue :
          /\ IsPending(queue, u)
          /\ queue[u].attempts = 0
          /\ u \in Delivered

\* C13: a call of retention_cleanup removes exactly the rows that are synced
\* or dead and older than the cutoff (now minus RETENTION_DAYS days) and
\* leaves the other rows as they were; it removes nothing when retention is
\* disabled; and no operation on the queue removes a pending row
C13_RetentionDeletesExactly ==
    [][/\ pc' = "retention_cleanup" =>
             /\ DOMAIN queue' =
                   {u \in DOMAIN queue :
                       ~(/\ ENABLE_RETENTION
                         /\ queue[u].ts_epoch_utc < now - RETENTION_DAYS * SecondsPerDay
                         /\ (IsSynced(queue, u) \/ IsDead(queue, u)))}
             /\ \A u \in DOMAIN queue' : queue'[u] = queue[u]
       /\ \A u \in DOMAIN queue : IsPending(queue, u) => u \in DOMAIN queue']_vars

\* C13 witness: retention_cleanup has removed a row and kept a pending row
\* older than the cutoff and a synced or dead row not older than it
C13_Witness ==
    /\ pc = "retention_cleanup"
    /\ Cardinality(DOMAIN queue) < autoinc
    /\ \E u \in DOMAIN queue :
          /\ IsPending(queue, u)
          /\ queue[u].ts_epoch_utc < now - RETENTION_DAYS * SecondsPerDay
    /\ \E u \in DOMAIN queue :
          /\ ~IsPending(queue, u)
          /\ queue[u].ts_epoch_utc = now - RETENTION_DAYS * SecondsPerDay

\* ts_epoch_utc of the i-th row a fetch returned
EpochOf(q, rs, i) == q[rs[i].reading_uuid].ts_epoch_utc

\* C14: a call of fetch_unsynced with limit MYSQL_BATCH_SIZE returns at most
\* limit rows (all the pending ones when there are no more than limit), each
\* once, all pending, in ascending ts_epoch_utc order, and no pending row left
\* out is older than a returned one; a synced or dead row is never returned
C14_FetchOldestPending ==
    [][pc' = "fetch_unsynced" =>
          LET returned == Range(UuidsOf(rows'))
          IN  /\ Len(rows') <= MYSQL_BATCH_SIZE
              /\ Len(rows') = Min(MYSQL_BATCH_SIZE, Cardinality(Pending(queue)))
              /\ Cardinality(returned) = Len(rows')
              /\ \A u \in returned : u \in DOMAIN queue /\ IsPending(queue, u)
              /\ \A i, j \in 1..Len(rows') :
                    i < j => EpochOf(queue, rows', i) <= EpochOf(queue, rows', j)
              /\ \A u \in Pending(queue) \ returned : \A i \in 1..Len(rows') :
                    queue[u].ts_epoch_utc >= EpochOf(queue, rows', i)]_vars

\* C14 witness: of three pending rows a fetch returned the two oldest, whose
\* order is not the rowid order, and left the newest out
C14_Witness ==
    /\ pc = "fetch_unsynced"
    /\ Len(rows) = MYSQL_BATCH_SIZE
    /\ \E i, j \in 1..Len(rows) : i < j /\ rows[i].reading_uuid > rows[j].reading_uuid
    /\ Pending(queue) \ Range(UuidsOf(rows)) # {}

\* reading_uuids offered to the remote store by the first n writes of a cycle
OfferedUpTo(offered, n) ==
    UNION {UuidsIn(offered[m].batch) : m \in 1..n}

\* C15: in the sequence of remote writes of a cycle (the batch, then the
\* sub-batches of its bisection) every write holds its rows in ascending
\* ts_epoch_utc order, and every pending row older than a row of a write is
\* offered by that write or an earlier one of the same cycle
C15_OfferedInEpochOrder ==
    [][(pc = "push" /\ calls' # <<>>) =>
          \A n \in 1..Len(calls') :
              LET b == calls'[n].batch
              IN  /\ \A i, j \in 1..Len(b) :
                        i < j => queue[b[i].reading_uuid].ts_epoch_utc
                                     <= queue[b[j].reading_uuid].ts_epoch_utc
                  /\ \A i \in 1..Len(b) : \A u \in Pending(queue) :
                        queue[u].ts_epoch_utc < queue[b[i].reading_uuid].ts_epoch_utc
                            => u \in OfferedUpTo(calls', n)]_vars

\* C15 witness: a batch of rows of different epochs was bisected while a
\* newer pending row waited outside it
C15_Witness ==
    /\ Len(calls) >= 3
    /\ \E i, j \in 1..Len(calls[1].batch) :
          calls[1].batch[i].ts_utc < calls[1].batch[j].ts_utc
    /\ \E u \in Pending(queue) :
          /\ u \notin OfferedUpTo(calls, Len(calls))
          /\ \A v \in OfferedUpTo(calls, Len(calls)) :
                v \in DOMAIN queue /\ queue[v].ts_epoch_utc < queue[u].ts_epoch_utc

\* C16: an iteration of the loop enters maintenance exactly when no run of
\* this process completed on the current UTC date (so in the first iteration
\* and then after a date change); a run prunes, then promotes, then records
\* its date; the promotion step removes no row, so a row promoted by a run is
\* in the queue when the run ends
C16_MaintenanceOncePerDay ==
    [][/\ (pc = "loop" /\ pc' # "loop" /\ RUNNING) =>
             /\ pc' = "retention" <=> last_maintenance_date # UtcDate(now)
             /\ pc' \in {"retention", "ready"}
       /\ (pc = "retention" /\ pc' # "retention") =>
             /\ pc' \in {"deadletter", "crashed"}
             /\ \A u \in Kept : queue'[u] = queue[u]
             /\ last_maintenance_date' = last_maintenance_date
       /\ (pc = "deadletter" /\ pc' # "deadletter") =>
             /\ pc' \in {"ready", "crashed"}
             /\ DOMAIN queue' = DOMAIN queue
             /\ last_maintenance_date # UtcDate(now)
             /\ pc' = "ready" => last_maintenance_date' = UtcDate(now)
       /\ pc \notin {"deadletter"} => last_maintenance_date' = last_maintenance_date
       /\ last_maintenance_date' \in {None} \cup 0..UtcDate(now')]_vars

\* C16 witness: the run of a later day has ended and a row it promoted to
\* dead, older than the retention cutoff, is still in the queue
C16_Witness ==
    /\ pc = "ready"
    /\ ENABLE_RETENTION
    /\ last_maintenance_date = UtcDate(now)
    /\ UtcDate(now) > UtcDate(StartTime)
    /\ \E u \in DOMAIN queue :
          /\ IsDead(queue, u)
          /\ queue[u].ts_epoch_utc < now - RETENTION_DAYS * SecondsPerDay

\* the least k with 2^k >= n
RECURSIVE CeilLog2From(_, _)
CeilLog2From(n, k) == IF Pow(2, k) >= n THEN k ELSE CeilLog2From(n, k + 1)

CeilLog2(n) == CeilLog2From(n, 0)

\* C17: the push of a batch of N rows of which exactly one is malformed, with
\* no other failure, makes at most ceil(log2 N) + 1 remote writes
C17_AtMostLogCalls ==
    [][(/\ pc = "push"
        /\ pc' # "push"
        /\ Cardinality({i \in 1..Len(batch) : Malformed(batch[i])}) = 1
        /\ NoInjectedFault(calls'))
       => Len(calls') <= CeilLog2(Len(batch)) + 1]_vars

\* C18: every committed remote reading of a row still in the queue is
\* attached to a sensor of that row's sensor_type and pin which belongs to
\* the device of that row's device_key
C18_AttachedToOwnDevice ==
    \A i \in 1..Len(remote.readings) :
        LET r == remote.readings[i]
            u == r.reading_uuid
        IN  u \in DOMAIN queue =>
                \E s \in remote.sensors :
                    /\ s.id = r.sensor_id
                    /\ s.sensor_type = queue[u].sensor_type
                    /\ s.pin = queue[u].pin
                    /\ \E d \in remote.devices :
                          /\ d.id = s.device_id
                          /\ d.device_key = queue[u].device_key

\* C19: once RUNNING is false it stays false; at the top of the loop the
\* forwarder then starts no iteration; every sleep is followed by the top of
\* the loop; the loop is left only at its top with
\* RUNNING false, so a delivery in progress goes on through its remote write
\* and local update; and after the stop signal the process eventually ends
C19_CooperativeStop ==
    /\ [][/\ ~RUNNING => ~RUNNING'
          /\ (~RUNNING /\ pc = "loop") => pc' \in {"loop", "done"}
          /\ (pc # "done" /\ pc' = "done") => (pc = "loop" /\ ~RUNNING)
          /\ (~RUNNING /\ pc = "push" /\ pc' # "push")
                => pc' \in {"commit", "loop", "crashed"}
          /\ (~RUNNING /\ pc = "commit" /\ pc' # "commit")
                => pc' \in {"mark", "loop", "crashed"}
          /\ (~RUNNING /\ pc = "mark" /\ pc' # "mark")
                => /\ pc' = "loop"
                   /\ Succeeded \/ FailedLocal
          /\ now' # now => pc' = "loop"]_vars
    /\ (~RUNNING) ~> (~Alive)

\* C19 witness: the stop signal arrived during a delivery whose remote write
\* is committed and whose local update is still to come
C19_Witness ==
    /\ ~RUNNING
    /\ pc = "mark"
    /\ \A i \in 1..Len(rows) : rows[i].reading_uuid \in Delivered

\* C20: a row enters the queue with attempts = 0; in every step the
\* attempts of a row that stays in the queue grow by exactly 1 when the step
\* is the mark_synced or the mark_attempt_failed of a cycle whose batch holds
\* the row, and stay as they were in every other step
C20_AttemptsCountDeliveries ==
    [][/\ \A u \in DOMAIN queue' \ DOMAIN queue : queue'[u].attempts = 0
       /\ \A u \in Kept :
             queue'[u].attempts =
                 IF /\ u \in Range(UuidsOf(rows))
                    /\ Succeeded \/ (FailedRemote /\ pc' = "loop")
                 THEN queue[u].attempts + 1
                 ELSE queue[u].attempts]_vars

\* C20 witness: a row was counted by a failed and by a successful attempt
\* while a row appended later has not been attempted
C20_Witness ==
    /\ \E u \in DOMAIN queue : IsSynced(queue, u) /\ queue[u].attempts = 2
    /\ \E u \in DOMAIN queue : IsPending(queue, u) /\ queue[u].attempts = 0

\* the two halves push_with_split makes of a batch
FirstHalf(b) == SubSeq(b, 1, Len(b) \div 2)

SecondHalf(b) == SubSeq(b, Len(b) \div 2 + 1, Len(b))

\* C21: the remote writes of a push start with the whole batch; every
\* rejected write of more than one row is followed by a write of its first
\* half and, after that, by a write of its second half; the push raises only
\* when a write of a single row was rejected, and returns only when every row
\* of the batch is in an accepted write
C21_SplitRetriesBothHalves ==
    [][(pc = "push" /\ pc' # "push") =>
          /\ calls' # <<>>
          /\ calls'[1].batch = batch
          /\ \A n \in 1..Len(calls') :
                (~calls'[n].ok /\ Len(calls'[n].batch) > 1) =>
                    \E m \in (n + 1)..Len(calls') :
                        /\ calls'[m].batch = FirstHalf(calls'[n].batch)
                        /\ \E k \in (m + 1)..Len(calls') :
                              calls'[k].batch = SecondHalf(calls'[n].batch)
          /\ pc' # "commit" =>
                \E n \in 1..Len(calls') : ~calls'[n].ok /\ Len(calls'[n].batch) = 1
          /\ pc' = "commit" =>
                \A i \in 1..Len(batch) : \E n \in 1..Len(calls') :
                    /\ calls'[n].ok
                    /\ \E j \in 1..Len(calls'[n].batch) : calls'[n].batch[j] = batch[i]]_vars

\* C22: a cycle that ends in the remote or unclassified error handler leaves
\* the committed remote tables as they were before the cycle and marks none of
\* its rows synced; rows become synced only in a step after which every row of
\* the cycle is among the committed remote readings
C22_AllOrNothing ==
    [][/\ FailedRemote =>
             /\ remote' = remote
             /\ \A u \in Range(UuidsOf(rows)) : ~IsSynced(queue', u)
       /\ (\E u \in Kept : ~IsSynced(queue, u) /\ IsSynced(queue', u)) =>
             /\ rows # <<>>
             /\ Range(UuidsOf(rows)) \subseteq UuidsIn(remote'.readings)]_vars

\* C23: while a delivery cycle is in progress no step changes a row that the
\* cycle's fetch did not return; a step that appends a row leaves every
\* existing row as it was and the new row is pending with attempts = 0; and a
\* fetch leaves a pending row out only when it returns a full batch
C23_UpdatesOnlyFetchedRows ==
    [][/\ InCycle(pc) =>
             \A u \in Kept \ Range(UuidsOf(rows)) : queue'[u] = queue[u]
       /\ \A u \in DOMAIN queue' \ DOMAIN queue :
             /\ \A v \in DOMAIN queue : v \in DOMAIN queue' /\ queue'[v] = queue[v]
             /\ IsPending(queue', u)
             /\ queue'[u].attempts = 0
       /\ (pc = "ready" /\ pc' = "connect") =>
             \A u \in DOMAIN queue :
                 IsPending(queue, u) =>
                     \/ u \in Range(UuidsOf(rows'))
                     \/ Len(rows') = MYSQL_BATCH_SIZE]_vars

\* C23 witness: the cycle has committed and is about to mark its rows; its
\* fetch returned less than a full batch, so the pending row with attempts = 0
\* that is not among its rows was appended after the fetch
C23_Witness ==
    /\ pc = "mark"
    /\ rows # <<>>
    /\ Len(rows) < MYSQL_BATCH_SIZE
    /\ \E u \in DOMAIN queue \ Range(UuidsOf(rows)) :
          IsPending(queue, u) /\ queue[u].attempts = 0

\* C24: no row of the queue is both synced and dead, and while a delivery
\* cycle is in progress every row its fetch returned is still in the queue
\* and still pending
C24_NeverSyncedAndDead ==
    /\ \A u \in DOMAIN queue : ~(IsSynced(queue, u) /\ IsDead(queue, u))
    /\ InCycle(pc) =>
          \A u \in Range(UuidsOf(rows)) : u \in DOMAIN queue /\ IsPending(queue, u)

\* C24 witness: today's sweep has just run over a row that was marked synced
\* on an earlier day with attempts at the threshold, and the row is not dead
C24_Witness ==
    /\ pc = "ready"
    /\ last_maintenance_date = today
    /\ today = UtcDate(now)
    /\ \E u \in DOMAIN queue :
          /\ IsSynced(queue, u)
          /\ ~IsDead(queue, u)
          /\ queue[u].attempts >= MAX_SYNC_ATTEMPTS
          /\ queue[u].last_attempt_utc < FormatUtc(today * SecondsPerDay)

=============================================================================
